---- MODULE Spec2Model ----
(***************************************************************************)
(* Contact scoring and meeting recommendation engine of the healthcare     *)
(* conference targeting backend (src/backend/server.py).                   *)
(*                                                                         *)
(* The three MongoDB collections are the state: users, contacts, meetings, *)
(* with the module-level list HEALTHCARE_CONFERENCES (catalogue) and the   *)
(* coroutines suspended at an await (tasks).                               *)
(* Every request handler is one action; the last request and the response  *)
(* it received are kept so that properties can speak about what the caller *)
(* was told.  str.lower() and the substring test "keyword in text" of the  *)
(* scoring rules are computed on the characters of the strings.  The       *)
(* storage key _id that MongoDB adds is stripped before every write        *)
(* (server.py:420) and is left out of the documents.                       *)
(***************************************************************************)
EXTENDS Integers, Sequences, FiniteSets, TLC

VARIABLES users, contacts, meetings, request, response, suggests,
          catalogue, tasks

vars == <<users, contacts, meetings, request, response, suggests,
          catalogue, tasks>>

(***************************************************************************)
(* Bounds of the model.                                                    *)
(***************************************************************************)
\* uploads are accepted while the store stays within MaxContacts documents
MaxContacts == 22
\* number of suggest requests that store recommendations; the variable
\* suggests counts them
MaxSuggests == 1

(***************************************************************************)
(* Program constants.                                                      *)
(***************************************************************************)
BaseScore == 60
ExecutiveBonus == 25
OrganizationBonus == 20
IndustryBonus == 15
TrendBonus == 10
ScoreCap == 100
TopReturned == 20
HighPriorityLimit == 10
FallbackLimit == 5
NotFoundStatus == 404
BadRequestStatus == 400
ServerErrorStatus == 500
OkStatus == 200

(***************************************************************************)
(* Python string operations on tuples of characters.                       *)
(***************************************************************************)
UpperCase ==
  <<"A","B","C","D","E","F","G","H","I","J","K","L","M",
    "N","O","P","Q","R","S","T","U","V","W","X","Y","Z">>

LowerCase ==
  <<"a","b","c","d","e","f","g","h","i","j","k","l","m",
    "n","o","p","q","r","s","t","u","v","w","x","y","z">>

\* the characters of the string literals of the program and of its inputs
\* (a TLA+ string is atomic, a Python str is a sequence of characters)
CharTable ==
  ("ceo" :> <<"c","e","o">>) @@
  ("cto" :> <<"c","t","o">>) @@
  ("cmo" :> <<"c","m","o">>) @@
  ("vp" :> <<"v","p">>) @@
  ("director" :> <<"d","i","r","e","c","t","o","r">>) @@
  ("chief" :> <<"c","h","i","e","f">>) @@
  ("president" :> <<"p","r","e","s","i","d","e","n","t">>) @@
  ("hospital" :> <<"h","o","s","p","i","t","a","l">>) @@
  ("health system" :> <<"h","e","a","l","t","h"," ","s","y","s","t","e","m">>) @@
  ("medical center" :> <<"m","e","d","i","c","a","l"," ","c","e","n","t","e","r">>) @@
  ("clinic" :> <<"c","l","i","n","i","c">>) @@
  ("healthcare network" :> <<"h","e","a","l","t","h","c","a","r","e"," ","n","e","t","w","o","r","k">>) @@
  ("healthcare" :> <<"h","e","a","l","t","h","c","a","r","e">>) @@
  ("medical" :> <<"m","e","d","i","c","a","l">>) @@
  ("pharma" :> <<"p","h","a","r","m","a">>) @@
  ("biotech" :> <<"b","i","o","t","e","c","h">>) @@
  ("digital health" :> <<"d","i","g","i","t","a","l"," ","h","e","a","l","t","h">>) @@
  ("healthtech" :> <<"h","e","a","l","t","h","t","e","c","h">>) @@
  ("digital" :> <<"d","i","g","i","t","a","l">>) @@
  ("ai" :> <<"a","i">>) @@
  ("innovation" :> <<"i","n","n","o","v","a","t","i","o","n">>) @@
  ("transformation" :> <<"t","r","a","n","s","f","o","r","m","a","t","i","o","n">>) @@
  ("value" :> <<"v","a","l","u","e">>) @@
  ("analytics" :> <<"a","n","a","l","y","t","i","c","s">>) @@
  ("MediCorp" :> <<"M","e","d","i","C","o","r","p">>) @@
  ("Chief Medical Officer" :> <<"C","h","i","e","f"," ","M","e","d","i","c","a","l"," ","O","f","f","i","c","e","r">>) @@
  ("Healthcare" :> <<"H","e","a","l","t","h","c","a","r","e">>) @@
  ("HealthTech Inc" :> <<"H","e","a","l","t","h","T","e","c","h"," ","I","n","c">>) @@
  ("VP Engineering" :> <<"V","P"," ","E","n","g","i","n","e","e","r","i","n","g">>) @@
  ("Healthcare Technology" :> <<"H","e","a","l","t","h","c","a","r","e"," ","T","e","c","h","n","o","l","o","g","y">>) @@
  ("PharmaPlus" :> <<"P","h","a","r","m","a","P","l","u","s">>) @@
  ("Director of Operations" :> <<"D","i","r","e","c","t","o","r"," ","o","f"," ","O","p","e","r","a","t","i","o","n","s">>) @@
  ("Pharmaceuticals" :> <<"P","h","a","r","m","a","c","e","u","t","i","c","a","l","s">>) @@
  ("Acme Corp" :> <<"A","c","m","e"," ","C","o","r","p">>) @@
  ("Analyst" :> <<"A","n","a","l","y","s","t">>) @@
  ("Retail" :> <<"R","e","t","a","i","l">>) @@
  ("City Hospital" :> <<"C","i","t","y"," ","H","o","s","p","i","t","a","l">>) @@
  ("AI Researcher" :> <<"A","I"," ","R","e","s","e","a","r","c","h","e","r">>) @@
  ("Medical" :> <<"M","e","d","i","c","a","l">>) @@
  ("President" :> <<"P","r","e","s","i","d","e","n","t">>) @@
  ("Mayo Clinic" :> <<"M","a","y","o"," ","C","l","i","n","i","c">>) @@
  ("Nurse" :> <<"N","u","r","s","e">>) @@
  ("Doctor" :> <<"D","o","c","t","o","r">>) @@
  ("Data Analytics Lead" :> <<"D","a","t","a"," ","A","n","a","l","y","t","i","c","s"," ","L","e","a","d">>) @@
  ("General Hospital" :> <<"G","e","n","e","r","a","l"," ","H","o","s","p","i","t","a","l">>) @@
  ("Chief Digital Officer" :> <<"C","h","i","e","f"," ","D","i","g","i","t","a","l"," ","O","f","f","i","c","e","r">>) @@
  ("Sales Rep" :> <<"S","a","l","e","s"," ","R","e","p">>) @@
  ("Biotech" :> <<"B","i","o","t","e","c","h">>) @@
  ("CEO" :> <<"C","E","O">>) @@
  ("contacts.csv" :> <<"c","o","n","t","a","c","t","s",".","c","s","v">>) @@
  ("booth.csv" :> <<"b","o","o","t","h",".","c","s","v">>) @@
  ("empty.csv" :> <<"e","m","p","t","y",".","c","s","v">>) @@
  ("contacts.xlsx" :> <<"c","o","n","t","a","c","t","s",".","x","l","s","x">>) @@
  (".csv" :> <<".","c","s","v">>) @@
  ("Technology" :> <<"T","e","c","h","n","o","l","o","g","y">>) @@
  ("technology" :> <<"t","e","c","h","n","o","l","o","g","y">>) @@
  ("it" :> <<"i","t">>) @@
  ("pharmaceutical" :> <<"p","h","a","r","m","a","c","e","u","t","i","c","a","l">>) @@
  ("finance" :> <<"f","i","n","a","n","c","e">>) @@
  ("investment" :> <<"i","n","v","e","s","t","m","e","n","t">>) @@
  ("Investment" :> <<"I","n","v","e","s","t","m","e","n","t">>) @@
  ("" :> <<>>) @@
  ("role" :> <<"r","o","l","e">>)

Chars(s) == CharTable[s]

\* str.lower() on one character
LowerChar(c) ==
  IF \E i \in 1..Len(UpperCase) : UpperCase[i] = c
    THEN LowerCase[CHOOSE i \in 1..Len(UpperCase) : UpperCase[i] = c]
    ELSE c

\* str.lower()
Lower(s) == [i \in 1..Len(s) |-> LowerChar(s[i])]

\* keyword in text
Contains(text, keyword) ==
  \E i \in 1..(Len(text) - Len(keyword) + 1) :
     SubSeq(text, i, i + Len(keyword) - 1) = keyword

\* any(keyword in text.lower() for keyword in keywords)
AnyKeyword(text, keywords) ==
  \E k \in 1..Len(keywords) : Contains(Lower(Chars(text)), Chars(keywords[k]))

\* dict.get(key, default)
Get(doc, key, default) == IF key \in DOMAIN doc THEN doc[key] ELSE default

EmptyStr == ""

ExecutiveKeywords ==
  << "ceo",
     "cto",
     "cmo",
     "vp",
     "director",
     "chief",
     "president" >>
OrganizationKeywords ==
  << "hospital",
     "health system",
     "medical center",
     "clinic",
     "healthcare network" >>
IndustryKeywords ==
  << "healthcare",
     "medical",
     "pharma",
     "biotech",
     "digital health",
     "healthtech" >>
TrendKeywords ==
  << "digital",
     "ai",
     "innovation",
     "transformation",
     "value",
     "analytics" >>
(***************************************************************************)
(* get_conference_filter: the canonical conference name a known            *)
(* identifier maps to; NoFilter is the empty MongoDB filter {}.            *)
(***************************************************************************)
conference_name_map ==
  [c \in {"himss-2025", "jp-morgan-2025", "bio-2025",
          "aha-2025", "acp-2025", "rsna-2024"} |->
     CASE c = "himss-2025" -> "HIMSS 2025"
       [] c = "jp-morgan-2025" -> "J.P. Morgan Healthcare Conference"
       [] c = "bio-2025" -> "BIO International Convention"
       [] c = "aha-2025" -> "American Hospital Association Annual Membership Meeting"
       [] c = "acp-2025" -> "American College of Physicians Internal Medicine Meeting"
       [] c = "rsna-2024" -> "Radiological Society of North America Annual Meeting"]

NoFilter == [k \in {} |-> ""]

\* fault: an identifier outside the mapping is used as the conference name
get_conference_filter_strict(conference_id) ==
  IF conference_id = "all" THEN NoFilter
  ELSE IF conference_id \in DOMAIN conference_name_map
         THEN [conference |-> conference_name_map[conference_id]]
         ELSE [conference |-> conference_id]

get_conference_filter(conference_id) ==
  IF conference_id # "all" /\ conference_id \in DOMAIN conference_name_map
    THEN [conference |-> conference_name_map[conference_id]]
    ELSE NoFilter

\* a document matches a MongoDB equality filter when it has every field of
\* the filter with the same value
Matches(doc, filter) ==
  \A k \in DOMAIN filter : k \in DOMAIN doc /\ doc[k] = filter[k]

\* fault: the filter is ignored, every document is found
FindAll(coll, filter) == coll

\* collection.find(filter): the matching documents in natural order
Find(coll, filter) == SelectSeq(coll, LAMBDA doc : Matches(doc, filter))

\* cursor.limit(n).to_list(length=n)
Limit(docs, n) == SubSeq(docs, 1, IF Len(docs) < n THEN Len(docs) ELSE n)

\* fault: the filter is ignored
CountDocumentsAll(coll, filter) == Len(coll)

\* collection.count_documents(filter)
CountDocuments(coll, filter) == Len(Find(coll, filter))

\* collection.replace_one(filter, doc, upsert=True): the first matching
\* document is replaced in place; without a match the document is inserted
ReplaceOne(coll, filter, doc) ==
  IF \E i \in 1..Len(coll) : Matches(coll[i], filter)
    THEN LET matching == {j \in 1..Len(coll) : Matches(coll[j], filter)}
             i == CHOOSE j \in matching : \A m \in matching : j <= m
         IN [coll EXCEPT ![i] = doc]
    ELSE Append(coll, doc)

(***************************************************************************)
(* Inputs.                                                                 *)
(***************************************************************************)
TestUser == <<"client", "test-user-001">>

UnknownUser == <<"client", "no-such-user">>

\* no identifier in the request (None)
NoId == <<>>

UserIds == {TestUser, UnknownUser}

ConferenceIds == {"all", "himss-2025", "bio-2025", "mystery-2030"}

\* profiles a client posts
Profiles ==
  { [id |-> TestUser, name |-> "John Doe",
     email |-> "john.doe@example.com", company |-> "HealthTech Solutions",
     industry |-> "Healthcare Technology", role |-> "VP of Sales",
     goals |-> <<"Find new partners", "Showcase products",
                 "Learn industry trends">>,
     target_conferences |-> <<>>] }

\* uploaded files: parsed rows of csv.DictReader, one record per row, with
\* the columns the file's header names
csvMixed ==
  <<
     [name |-> "Dr. Sarah Johnson",
      email |-> "sarah.johnson@medicorp.com",
      company |-> "MediCorp",
      title |-> "Chief Medical Officer",
      industry |-> "Healthcare",
      conference |-> "HIMSS 2025"],
     [name |-> "Mike Chen",
      email |-> "mike.chen@healthtech.com",
      company |-> "HealthTech Inc",
      title |-> "VP Engineering",
      industry |-> "Healthcare Technology",
      conference |-> "HIMSS 2025"],
     [name |-> "Lisa Rodriguez",
      email |-> "lisa.r@pharmaplus.com",
      company |-> "PharmaPlus",
      title |-> "Director of Operations",
      industry |-> "Pharmaceuticals",
      conference |-> "BIO 2025"],
     [name |-> "Ann Lee",
      email |-> "ann.lee@acme.com",
      company |-> "Acme Corp",
      title |-> "Analyst",
      industry |-> "Retail",
      conference |-> "HIMSS 2025"],
     [name |-> "Raj Patel",
      email |-> "raj.patel@cityhospital.org",
      company |-> "City Hospital",
      title |-> "AI Researcher",
      industry |-> "Medical",
      conference |-> "BIO International Convention"],
     [name |-> "Eva Stone",
      email |-> "eva.stone@acme.com",
      company |-> "Acme Corp",
      title |-> "President",
      industry |-> "Retail",
      conference |-> "BIO International Convention"],
     [name |-> "Tom Hill",
      email |-> "tom.hill@mayo.org",
      company |-> "Mayo Clinic",
      title |-> "Nurse",
      industry |-> "Retail",
      conference |-> "HIMSS 2025"],
     [name |-> "Kim Wu",
      email |-> "kim.wu@acme.com",
      company |-> "Acme Corp",
      title |-> "Doctor",
      industry |-> "Retail",
      conference |-> "HIMSS 2025"],
     [name |-> "Joe Diaz",
      email |-> "joe.diaz@acme.com",
      company |-> "Acme Corp",
      title |-> "Data Analytics Lead",
      industry |-> "Retail",
      conference |-> "HIMSS 2025"],
     [name |-> "Amy Park",
      email |-> "amy.park@general.org",
      company |-> "General Hospital",
      title |-> "Chief Digital Officer",
      industry |-> "Medical",
      conference |-> "HIMSS 2025"],
     [name |-> "Ben Cole",
      email |-> "ben.cole@acme.com",
      company |-> "Acme Corp",
      title |-> "Sales Rep",
      industry |-> "Biotech",
      conference |-> "BIO International Convention"]
  >>
csvNoColumns ==
  <<
     [name |-> "Ada Roy",
      email |-> "ada.roy@acme.com",
      company |-> "Acme Corp",
      title |-> "Analyst"],
     [name |-> "Bo Lin",
      email |-> "bo.lin@mayo.org",
      company |-> "Mayo Clinic",
      title |-> "Nurse"],
     [name |-> "Cy Fox",
      email |-> "cy.fox@acme.com",
      company |-> "Acme Corp",
      title |-> "President"],
     [name |-> "Di Sun",
      email |-> "di.sun@acme.com",
      company |-> "Acme Corp",
      title |-> "Data Analytics Lead"],
     [name |-> "Ed Kay",
      email |-> "ed.kay@general.org",
      company |-> "General Hospital",
      title |-> "Chief Digital Officer"],
     [name |-> "Flo Ray",
      email |-> "flo.ray@acme.com",
      company |-> "Acme Corp",
      title |-> "Sales Rep"],
     [name |-> "Gus Orr",
      email |-> "gus.orr@acme.com",
      company |-> "Acme Corp",
      title |-> "Doctor"],
     [name |-> "Hal Ito",
      email |-> "hal.ito@mayo.org",
      company |-> "Mayo Clinic",
      title |-> "CEO"],
     [name |-> "Ivy Tan",
      email |-> "ivy.tan@acme.com",
      company |-> "Acme Corp",
      title |-> "Nurse"],
     [name |-> "Jay Oz",
      email |-> "jay.oz@medicorp.com",
      company |-> "MediCorp",
      title |-> "VP Engineering"],
     [name |-> "Kit Ng",
      email |-> "kit.ng@acme.com",
      company |-> "Acme Corp",
      title |-> "AI Researcher"]
  >>
csvHeaderOnly == <<>>

Files ==
  { [filename |-> "contacts.csv", rows |-> csvMixed],
    [filename |-> "booth.csv", rows |-> csvNoColumns],
    [filename |-> "empty.csv", rows |-> csvHeaderOnly],
    [filename |-> "contacts.xlsx", rows |-> csvMixed] }

CsvSuffix == ".csv"

DefaultIndustry == "Healthcare"

DefaultConference == "HIMSS 2025"

\* str.endswith(suffix)
EndsWith(text, suffix) ==
  LET t == Chars(text)
      s == Chars(suffix)
  IN /\ Len(t) >= Len(s)
     /\ SubSeq(t, Len(t) - Len(s) + 1, Len(t)) = s

\* fault: the same identifier every time
uuid4_repeats(collection, n) == <<collection, 1>>

(***************************************************************************)
(* Identifiers are pairs: <<"client", name>> for an identifier the client  *)
(* chose, <<collection, n>> for one the server generated.                  *)
(* str(uuid.uuid4()) is an identifier no document carries yet; documents   *)
(* are never deleted, so the n-th identifier issued for a collection is    *)
(* fresh in it.                                                            *)
(***************************************************************************)
uuid4(collection, n) == <<collection, n>>

(***************************************************************************)
(* Responses.  Every handler body is wrapped in                            *)
(*   try: ... except Exception as e: raise HTTPException(status_code=500)  *)
(* and HTTPException is an Exception, so an HTTPException raised inside    *)
(* the try block is caught by the handler's own except clause.             *)
(***************************************************************************)
NoBody == [k \in {} |-> ""]

NoDetail == <<>>

HTTPException(status_code, detail) ==
  [status |-> status_code, detail |-> detail, body |-> NoBody]

Ok(body) == [status |-> OkStatus, detail |-> NoDetail, body |-> body]

\* except Exception as e: raise HTTPException(status_code=500,
\*                                            detail=prefix + str(e))
ExceptException(prefix, e) ==
  HTTPException(ServerErrorStatus, <<prefix, <<e.status, e.detail>>>>)

(***************************************************************************)
(* Scoring (analyze_contacts, the loop over the contacts read).            *)
(***************************************************************************)
\* contact[key] = value
SetField(doc, key, value) ==
  [k \in (DOMAIN doc) \cup {key} |-> IF k = key THEN value ELSE doc[k]]

\* fault: the score is stored without min(score, 100)
ClampUnbounded(score) == score

\* min(score, 100)
Clamp(score) == IF score < ScoreCap THEN score ELSE ScoreCap

\* The four rules.  A text of the uploaded files is matched against the
\* keywords once (the sets below are constants); any other text is matched
\* on the spot.  Either way the answer is AnyKeyword's.
FileTexts(field, default) ==
  UNION { {Get(f.rows[i], field, default) : i \in 1..Len(f.rows)} : f \in Files }

Titles == FileTexts("title", EmptyStr)

Companies == FileTexts("company", EmptyStr)

Industries == FileTexts("industry", DefaultIndustry)

ExecutiveTitles == {text \in Titles : AnyKeyword(text, ExecutiveKeywords)}

OrganizationCompanies ==
  {text \in Companies : AnyKeyword(text, OrganizationKeywords)}

RelevantIndustries == {text \in Industries : AnyKeyword(text, IndustryKeywords)}

TrendTitles == {text \in Titles : AnyKeyword(text, TrendKeywords)}

RuleFires(text, keywords, texts, firing) ==
  IF text \in texts THEN text \in firing ELSE AnyKeyword(text, keywords)

\* the executive-title rule, which also decides the priority
IsExecutive(contact) ==
  RuleFires(Get(contact, "title", EmptyStr), ExecutiveKeywords,
            Titles, ExecutiveTitles)

IsOrganization(contact) ==
  RuleFires(Get(contact, "company", EmptyStr), OrganizationKeywords,
            Companies, OrganizationCompanies)

IsRelevantIndustry(contact) ==
  RuleFires(Get(contact, "industry", EmptyStr), IndustryKeywords,
            Industries, RelevantIndustries)

IsTrend(contact) ==
  RuleFires(Get(contact, "title", EmptyStr), TrendKeywords,
            Titles, TrendTitles)

\* fault: the rules chained with elif, so that only the first one counts
RawScoreElif(contact) ==
  IF IsExecutive(contact) THEN BaseScore + ExecutiveBonus
  ELSE IF IsOrganization(contact) THEN BaseScore + OrganizationBonus
  ELSE IF IsRelevantIndustry(contact) THEN BaseScore + IndustryBonus
  ELSE IF IsTrend(contact) THEN BaseScore + TrendBonus
  ELSE BaseScore

\* score = 60, then the four "score +=" rules in program order
RawScore(contact) ==
  LET s0 == BaseScore
      s1 == IF IsExecutive(contact) THEN s0 + ExecutiveBonus ELSE s0
      s2 == IF IsOrganization(contact) THEN s1 + OrganizationBonus ELSE s1
      s3 == IF IsRelevantIndustry(contact) THEN s2 + IndustryBonus ELSE s2
      s4 == IF IsTrend(contact) THEN s3 + TrendBonus ELSE s3
  IN s4

\* fault: the priority derived from the score instead of the title rule
PriorityOfByScore(contact) ==
  IF Clamp(RawScore(contact)) >= BaseScore + ExecutiveBonus THEN "high"
  ELSE "medium"

\* priority = "medium", set to "high" where the executive rule fires
PriorityOf(contact) == IF IsExecutive(contact) THEN "high" ELSE "medium"

\* the text of the f-string, as the sequence of its parts
AiNotes(contact) ==
  <<"Scored based on ", Get(contact, "title", "role"),
    ", organization type, and alignment with current healthcare industry priorities (2024-2025)">>

\* one iteration of the scoring loop: the three assignments to the dict
ScoreContact(contact) ==
  SetField(
    SetField(
      SetField(contact, "score", Clamp(RawScore(contact))),
      "priority", PriorityOf(contact)),
    "ai_notes", AiNotes(contact))

ScoreAll(docs) == [i \in 1..Len(docs) |-> ScoreContact(docs[i])]

\* fault: an unstable sort, equal scores come out in reverse order
RECURSIVE InsertByScoreStrict(_, _)
InsertByScoreStrict(sorted, x) ==
  IF sorted = <<>> THEN <<x>>
  ELSE IF Head(sorted).score > x.score
         THEN <<Head(sorted)>> \o InsertByScoreStrict(Tail(sorted), x)
         ELSE <<x>> \o sorted

\* list.sort(key=lambda x: x['score'], reverse=True): a stable sort, so an
\* element goes behind every element whose score is at least its own
RECURSIVE InsertByScore(_, _)
InsertByScore(sorted, x) ==
  IF sorted = <<>> THEN <<x>>
  ELSE IF Head(sorted).score >= x.score
         THEN <<Head(sorted)>> \o InsertByScore(Tail(sorted), x)
         ELSE <<x>> \o sorted

RECURSIVE SortByScore(_)
SortByScore(docs) ==
  IF docs = <<>> THEN <<>>
  ELSE InsertByScore(SortByScore(SubSeq(docs, 1, Len(docs) - 1)),
                     docs[Len(docs)])

\* fault: only the 20 contacts of the response are written back
RECURSIVE UpdateTopOnly(_, _)
UpdateTopOnly(coll, analyzed) ==
  LET top == Limit(SortByScore(analyzed), TopReturned)
  IN IF top = <<>> THEN coll
     ELSE UpdateTopOnly(ReplaceOne(coll, [id |-> Head(top).id], Head(top)),
                        Tail(top))

\* the update loop: one replace_one(..., upsert=True) per analyzed contact
RECURSIVE UpdateAll(_, _)
UpdateAll(coll, analyzed) ==
  IF analyzed = <<>> THEN coll
  ELSE UpdateAll(ReplaceOne(coll, [id |-> Head(analyzed).id], Head(analyzed)),
                 Tail(analyzed))

\* len([c for c in docs if c['priority'] == priority])
CountPriority(docs, priority) ==
  Cardinality({i \in 1..Len(docs) : docs[i].priority = priority})

(***************************************************************************)
(* Meeting recommendations (suggest_meetings).                             *)
(***************************************************************************)
\* fault: a sixth slot label
time_slots_six ==
  <<"Day 1, 10:00 AM", "Day 1, 2:00 PM", "Day 2, 11:00 AM",
    "Day 2, 3:00 PM", "Day 3, 9:00 AM", "Day 3, 1:00 PM">>

time_slots ==
  <<"Day 1, 10:00 AM", "Day 1, 2:00 PM", "Day 2, 11:00 AM",
    "Day 2, 3:00 PM", "Day 3, 9:00 AM">>

\* collection.find_one(filter): the first match, or None (here <<>>)
FindOne(coll, filter) ==
  LET found == Find(coll, filter) IN IF found = <<>> THEN <<>> ELSE <<found[1]>>

\* user_profile.get('company', 'Your Company') if user_profile
\* else 'Your Company'
CompanyOf(profile) ==
  IF profile # <<>> THEN Get(profile[1], "company", "Your Company")
  ELSE "Your Company"

\* fault: without a profile there are no goals
GoalsOfNoDefault(profile) ==
  IF profile # <<>> THEN Get(profile[1], "goals", <<"networking">>)
  ELSE <<>>

\* user_profile.get('goals', ['networking']) if user_profile
\* else ['networking']
GoalsOf(profile) ==
  IF profile # <<>> THEN Get(profile[1], "goals", <<"networking">>)
  ELSE <<"networking">>

\* goals[0] if goals else 'potential collaboration'
TopicOf(goals) == IF goals # <<>> THEN goals[1] ELSE "potential collaboration"

\* the f-string of the outreach message, as its template and its slots
PersonalizedMessage(contact, profile, conference_id) ==
  [template |-> "Hi {}, I'm with {} and noticed your work at {}. I'd love to discuss {}. Available for coffee at {}?",
   name |-> Get(contact, "name", "there"),
   company |-> CompanyOf(profile),
   contact_company |-> Get(contact, "company", EmptyStr),
   topic |-> TopicOf(GoalsOf(profile)),
   conference |-> <<"upper", conference_id>>]

Reason(contact) ==
  [template |-> "Strategic partnership opportunity with {} in {}",
   company |-> Get(contact, "company", "this company"),
   industry |-> Get(contact, "industry", "healthcare")]

\* the body of the loop "for i, contact in enumerate(contacts)"; i counts
\* from 0 and n is the number of meetings stored before the request
Recommendation(i, contact, profile, conference_id, n) ==
  [id |-> uuid4("meetings", n + i + 1),
   contact_id |-> contact.id,
   contact_name |-> Get(contact, "name", "Unknown"),
   contact_company |-> Get(contact, "company", "Unknown"),
   suggested_time |-> time_slots[(i % Len(time_slots)) + 1],
   reason |-> Reason(contact),
   personalized_message |-> PersonalizedMessage(contact, profile, conference_id),
   priority |-> Get(contact, "priority", "medium")]

\* fault: the second query is never run
SelectContactsNoFallback(coll, conference_id) ==
  LET conference_filter == get_conference_filter(conference_id)
      high_priority_filter == SetField(conference_filter, "priority", "high")
  IN Limit(Find(coll, high_priority_filter), HighPriorityLimit)

\* fault: the fallback query runs whenever fewer than 10 contacts are high
SelectContactsTopUp(coll, conference_id) ==
  LET conference_filter == get_conference_filter(conference_id)
      high_priority_filter == SetField(conference_filter, "priority", "high")
      high == Limit(Find(coll, high_priority_filter), HighPriorityLimit)
  IN IF Len(high) < HighPriorityLimit
       THEN Limit(Find(coll, conference_filter), FallbackLimit)
       ELSE high

\* the two queries: high-priority contacts of the conference, at most 10;
\* when there is none, any contacts of the conference, at most 5
SelectContacts(coll, conference_id) ==
  LET conference_filter == get_conference_filter(conference_id)
      high_priority_filter == SetField(conference_filter, "priority", "high")
      high == Limit(Find(coll, high_priority_filter), HighPriorityLimit)
  IN IF high = <<>>
       THEN Limit(Find(coll, conference_filter), FallbackLimit)
       ELSE high

(***************************************************************************)
(* State machine.                                                          *)
(***************************************************************************)
\* module-level conference list as the process starts
HEALTHCARE_CONFERENCES ==
  << [id |-> "himss-2025",
      name |-> "HIMSS Global Health Conference & Exhibition",
      date |-> "2025-03-03 to 2025-03-06",
      location |-> "Las Vegas, NV",
      focus |-> "Health Information Technology",
      attendees |-> 45000,
      description |-> "World's largest health information technology conference focusing on digital health transformation"],
     [id |-> "jp-morgan-2025",
      name |-> "J.P. Morgan Healthcare Conference",
      date |-> "2025-01-13 to 2025-01-16",
      location |-> "San Francisco, CA",
      focus |-> "Healthcare Investment & Innovation",
      attendees |-> 9000,
      description |-> "Premier healthcare investment conference bringing together industry leaders and investors"],
     [id |-> "bio-2025",
      name |-> "BIO International Convention",
      date |-> "2025-06-02 to 2025-06-05",
      location |-> "Philadelphia, PA",
      focus |-> "Biotechnology & Life Sciences",
      attendees |-> 18000,
      description |-> "World's largest biotechnology partnering event connecting biotech innovators globally"],
     [id |-> "aha-2025",
      name |-> "American Hospital Association Annual Membership Meeting",
      date |-> "2025-04-26 to 2025-04-29",
      location |-> "Chicago, IL",
      focus |-> "Hospital Administration & Leadership",
      attendees |-> 5000,
      description |-> "Premier leadership conference for hospital and health system executives"],
     [id |-> "acp-2025",
      name |-> "American College of Physicians Internal Medicine Meeting",
      date |-> "2025-04-10 to 2025-04-12",
      location |-> "Boston, MA",
      focus |-> "Internal Medicine & Clinical Practice",
      attendees |-> 8000,
      description |-> "Leading conference for internal medicine physicians and healthcare professionals"],
     [id |-> "rsna-2024",
      name |-> "Radiological Society of North America Annual Meeting",
      date |-> "2024-12-01 to 2024-12-05",
      location |-> "Chicago, IL",
      focus |-> "Radiology & Medical Imaging",
      attendees |-> 50000,
      description |-> "World's premier radiology conference showcasing latest imaging technologies and research"] >>

\* the coroutines that can be suspended inside analyze_contacts
Tasks == {1, 2}
Idle == [pc |-> "idle"]
NoTasks == [t \in Tasks |-> Idle]

NoRequest == [op |-> "none"]

Init ==
  /\ users = <<>>
  /\ contacts = <<>>
  /\ meetings = <<>>
  /\ request = NoRequest
  /\ response = Ok(NoBody)
  /\ suggests = 0
  /\ catalogue = HEALTHCARE_CONFERENCES
  /\ tasks = NoTasks

\* POST /api/user/profile
save_user_profile(profile) ==
  LET id == IF profile.id = NoId THEN uuid4("users", Len(users) + 1)
            ELSE profile.id
      profile_dict == [profile EXCEPT !.id = id]
  IN /\ users' = ReplaceOne(users, [id |-> id], profile_dict)
     /\ request' = [op |-> "save_user_profile", profile |-> profile]
     /\ response' = Ok([success |-> TRUE, profile |-> profile_dict])
     /\ UNCHANGED <<contacts, meetings, suggests, catalogue, tasks>>

\* notes: Optional[str] = "", the empty text (a text is the sequence of its
\* parts, see AiNotes)
NoNotes == <<>>

\* Contact(id=..., name=row.get('name', ''), ...).dict()
Contact(id, row) ==
  [id |-> id,
   name |-> Get(row, "name", ""),
   email |-> Get(row, "email", ""),
   company |-> Get(row, "company", EmptyStr),
   title |-> Get(row, "title", EmptyStr),
   industry |-> Get(row, "industry", DefaultIndustry),
   conference |-> Get(row, "conference", DefaultConference),
   score |-> 0,
   priority |-> "medium",
   notes |-> NoNotes]

\* POST /api/contacts/upload
upload_contacts(file, user_id) ==
  LET new == [i \in 1..Len(file.rows) |->
                Contact(uuid4("contacts", Len(contacts) + i), file.rows[i])]
  IN /\ request' = [op |-> "upload_contacts", filename |-> file.filename,
                    user_id |-> user_id]
     /\ IF ~EndsWith(file.filename, CsvSuffix)
          THEN /\ response' = ExceptException("",
                                HTTPException(BadRequestStatus, "File must be CSV format"))
               /\ UNCHANGED <<users, contacts, meetings, suggests, catalogue, tasks>>
          ELSE /\ Len(contacts) + Len(new) <= MaxContacts
               /\ contacts' = IF new # <<>> THEN contacts \o new ELSE contacts
               /\ response' = Ok([success |-> TRUE, contacts_uploaded |-> Len(new)])
               /\ UNCHANGED <<users, meetings, suggests, catalogue, tasks>>

\* fault: a missing profile goes undetected
ProfileMissingIgnored(user_profile) == FALSE

\* if not user_profile
ProfileMissing(user_profile) == user_profile = <<>>

\* POST /api/contacts/analyze
analyze_contacts(user_id, conference_id) ==
  LET user_profile == FindOne(users, [id |-> user_id])
      found == Find(contacts, get_conference_filter(conference_id))
      analyzed_contacts == ScoreAll(found)
      sorted == SortByScore(analyzed_contacts)
  IN /\ request' = [op |-> "analyze_contacts", user_id |-> user_id,
                    conference_id |-> conference_id]
     /\ IF ProfileMissing(user_profile)
          THEN /\ response' = ExceptException("Analysis error: ",
                                HTTPException(NotFoundStatus, "User profile not found"))
               /\ UNCHANGED <<users, contacts, meetings, suggests, catalogue, tasks>>
          ELSE IF found = <<>>
          THEN /\ response' = Ok([analyzed_contacts |-> <<>>,
                                  message |-> "No contacts to analyze"])
               /\ UNCHANGED <<users, contacts, meetings, suggests, catalogue, tasks>>
          ELSE /\ contacts' = UpdateAll(contacts, analyzed_contacts)
               /\ response' =
                    Ok([analyzed_contacts |-> Limit(sorted, TopReturned),
                        total_analyzed |-> Len(sorted),
                        high_priority |-> CountPriority(sorted, "high"),
                        medium_priority |-> CountPriority(sorted, "medium"),
                        low_priority |-> CountPriority(sorted, "low")])
               /\ UNCHANGED <<users, meetings, suggests, catalogue, tasks>>

\* a request that stores recommendations is taken while fewer than limit
\* such requests were served
WithinSuggests(conference_id, limit) ==
  SelectContacts(contacts, conference_id) # <<>> => suggests < limit

\* POST /api/meetings/suggest
suggest_meetings(user_id, conference_id) ==
  LET selected == SelectContacts(contacts, conference_id)
      user_profile == FindOne(users, [id |-> user_id])
      recommendations ==
        [k \in 1..Len(selected) |->
           Recommendation(k - 1, selected[k], user_profile, conference_id,
                          Len(meetings))]
  IN /\ request' = [op |-> "suggest_meetings", user_id |-> user_id,
                    conference_id |-> conference_id]
     /\ meetings' = IF recommendations # <<>>
                      THEN meetings \o recommendations ELSE meetings
     /\ suggests' = IF recommendations # <<>> THEN suggests + 1 ELSE suggests
     /\ response' = Ok([meeting_suggestions |-> recommendations,
                        total_suggestions |-> Len(recommendations)])
     /\ UNCHANGED <<users, contacts, catalogue, tasks>>

\* GET /api/dashboard/stats
get_dashboard_stats(user_id) ==
  LET total_contacts == CountDocuments(contacts, NoFilter)
      high_priority == CountDocuments(contacts, [priority |-> "high"])
      meetings_suggested == CountDocuments(meetings, NoFilter)
  IN /\ request' = [op |-> "get_dashboard_stats", user_id |-> user_id]
     /\ response' =
          Ok([total_contacts |-> total_contacts,
              high_priority_contacts |-> high_priority,
              meeting_suggestions |-> meetings_suggested,
              roi_projection |->
                [number |-> meetings_suggested * 15,
                 text |-> "% increase in qualified leads"]])
     /\ UNCHANGED <<users, contacts, meetings, suggests, catalogue, tasks>>

Next ==
  \/ \E profile \in Profiles : save_user_profile(profile)
  \/ \E file \in Files, user_id \in {TestUser} : upload_contacts(file, user_id)
  \/ \E user_id \in UserIds, conference_id \in ConferenceIds :
        analyze_contacts(user_id, conference_id)
  \/ \E user_id \in UserIds, conference_id \in ConferenceIds :
        /\ WithinSuggests(conference_id, MaxSuggests)
        /\ suggest_meetings(user_id, conference_id)
  \/ \E user_id \in {TestUser} : get_dashboard_stats(user_id)

Spec == Init /\ [][Next]_vars

(***************************************************************************)
(* Profile lookup and the conference listing.                              *)
(***************************************************************************)
\* GET /api/health
health_check ==
  /\ request' = [op |-> "health_check"]
  /\ response' = Ok([status |-> "healthy"])
  /\ UNCHANGED <<users, contacts, meetings, suggests, catalogue, tasks>>

\* GET /api/user/profile/{user_id}
get_user_profile(user_id) ==
  LET profile == FindOne(users, [id |-> user_id])
  IN /\ request' = [op |-> "get_user_profile", user_id |-> user_id]
     /\ response' =
          IF profile = <<>>
            THEN ExceptException(EmptyStr,
                   HTTPException(NotFoundStatus, "Profile not found"))
            ELSE Ok(profile[1])
     /\ UNCHANGED <<users, contacts, meetings, suggests, catalogue, tasks>>

\* what get_gemini_model(...).generate_content(prompt) can do: return a
\* response, or raise (package or API key missing, or the call fails)
LlmOutcomes == {"ok", "raises"}

\* an optional query parameter: None is <<>>, a text t is <<t>>
None == <<>>

\* "if industry:" is false for None and for the empty string
Truthy(industry) == industry # None /\ industry[1] # EmptyStr

TechnologyIndustries == <<"technology", "it", "digital">>
PharmaIndustries == <<"pharma", "biotech", "pharmaceutical">>
FinanceIndustries == <<"finance", "investment">>

\* industry.lower() in names
InList(industry, names) ==
  \E k \in 1..Len(names) : Lower(Chars(industry)) = Chars(names[k])

FocusScore == 90
TechnologyOther == 70
PharmaOther == 60
FinanceOther == 50
DefaultRelevance == 75

\* the if/elif chain that sets conf['relevance_score']
RelevanceScore(industry, conf) ==
  IF InList(industry, TechnologyIndustries)
    THEN IF conf.id = "himss-2025" THEN FocusScore ELSE TechnologyOther
  ELSE IF InList(industry, PharmaIndustries)
    THEN IF conf.id = "bio-2025" THEN FocusScore ELSE PharmaOther
  ELSE IF InList(industry, FinanceIndustries)
    THEN IF conf.id = "jp-morgan-2025" THEN FocusScore ELSE FinanceOther
  ELSE DefaultRelevance

\* "for conf in conferences: conf['relevance_score'] = ...": the entries of
\* the list are the dicts of the list it was copied from
WithRelevance(conferences, industry) ==
  [i \in 1..Len(conferences) |->
     SetField(conferences[i], "relevance_score",
              RelevanceScore(industry, conferences[i]))]

\* GET /api/conferences?industry=...; llm is what the LLM call does when it
\* is made.  HEALTHCARE_CONFERENCES.copy() copies the list, not its dicts,
\* so the scores are written into the entries of the module-level list.
get_conferences(industry, llm) ==
  /\ request' = [op |-> "get_conferences", industry |-> industry, llm |-> llm]
  /\ IF ~Truthy(industry)
       THEN /\ response' = Ok([conferences |-> catalogue])
            /\ UNCHANGED catalogue
     ELSE IF llm = "raises"
       THEN /\ response' = HTTPException(ServerErrorStatus, <<EmptyStr, llm>>)
            /\ UNCHANGED catalogue
     ELSE /\ catalogue' = WithRelevance(catalogue, industry[1])
          /\ response' = Ok([conferences |-> catalogue'])
  /\ UNCHANGED <<users, contacts, meetings, suggests, tasks>>

\* POST /api/conferences/research
research_conferences(query, llm) ==
  /\ request' = [op |-> "research_conferences", query |-> query, llm |-> llm]
  /\ response' =
       IF llm = "raises"
         THEN Ok([success |-> FALSE,
                  message |-> "Unable to complete conference research at this time"])
         ELSE Ok([success |-> TRUE, research_query |-> query,
                  source |-> "Gemini AI Deep Research"])
  /\ UNCHANGED <<users, contacts, meetings, suggests, catalogue, tasks>>

\* the profile store takes new identifiers while it holds fewer than
\* MaxProfiles documents
MaxProfiles == 3

JaneId == <<"client", "test-user-002">>

\* John Doe's profile, the same after a change of company, a second user,
\* and a profile posted without an identifier
ProfileInputs ==
  Profiles \cup
  { [p EXCEPT !.company = "MediCorp"] : p \in Profiles } \cup
  { [p EXCEPT !.id = JaneId, !.name = "Jane Roe"] : p \in Profiles } \cup
  { [p EXCEPT !.id = NoId, !.name = "Walk-in"] : p \in Profiles }

\* the industries a client asks the listing for: none, the empty text, the
\* test's, and one of each branch of the ranking
IndustryInputs ==
  {None, <<EmptyStr>>, <<"Healthcare Technology">>, <<"Technology">>,
   <<"Biotech">>, <<"Investment">>}

\* the identifier is new to the store
NewProfile(profile) ==
  profile.id = NoId \/ \A i \in 1..Len(users) : users[i].id # profile.id

NextListing ==
  \/ \E profile \in ProfileInputs :
        /\ NewProfile(profile) => Len(users) < MaxProfiles
        /\ save_user_profile(profile)
  \/ \E user_id \in UserIds \cup {JaneId} : get_user_profile(user_id)
  \/ \E industry \in IndustryInputs, llm \in LlmOutcomes :
        get_conferences(industry, llm)
  \/ \E llm \in LlmOutcomes : research_conferences(None, llm)
  \/ health_check

\* the handlers that touch neither contacts nor meetings
SpecListing == Init /\ [][NextListing]_vars

(***************************************************************************)
(* Repeated suggest requests over one uploaded file.                       *)
(***************************************************************************)
\* suggest requests that store recommendations, in SpecRepeat
MaxRepeats == 2

\* documents the contact store takes in SpecRepeat
MaxRepeatContacts == 11

RepeatFiles == {f \in Files : f.filename = "contacts.csv"}

RepeatConferences == {"all", "bio-2025", "himss-2025"}

NextRepeat ==
  \/ \E profile \in Profiles : save_user_profile(profile)
  \/ \E file \in RepeatFiles, user_id \in {TestUser} :
        /\ Len(contacts) + Len(file.rows) <= MaxRepeatContacts
        /\ upload_contacts(file, user_id)
  \/ \E user_id \in {TestUser} : analyze_contacts(user_id, "all")
  \/ \E user_id \in UserIds, conference_id \in RepeatConferences :
        /\ WithinSuggests(conference_id, MaxRepeats)
        /\ suggest_meetings(user_id, conference_id)
  \/ \E user_id \in {TestUser} : get_dashboard_stats(user_id)

\* one file is uploaded once and suggest is asked again and again
SpecRepeat == Init /\ [][NextRepeat]_vars

\* fault: the write sets the score of the stored document and nothing else
replace_contact_score_only(coll, contact) ==
  [i \in 1..Len(coll) |->
     IF coll[i].id = contact.id THEN [coll[i] EXCEPT !.score = contact.score]
     ELSE coll[i]]

\* db.contacts.replace_one({"id": contact["id"]}, contact_update,
\* upsert=True): MongoDB replaces the whole document in one step
replace_contact(coll, contact) == ReplaceOne(coll, [id |-> contact.id], contact)

(***************************************************************************)
(* analyze_contacts as a coroutine.  The handler yields at every await:    *)
(* users.find_one, contacts.find(...).to_list, and each replace_one.  A    *)
(* task is Idle or holds the locals of a suspended handler; the step named *)
(* after an await performs that store operation and the code up to the     *)
(* next await.                                                             *)
(***************************************************************************)
\* await db.users.find_one({"id": user_id}), on to the next await
analyze_find_one(t, user_id, conference_id) ==
  LET user_profile == FindOne(users, [id |-> user_id])
  IN /\ tasks[t] = Idle
     /\ IF ProfileMissing(user_profile)
          THEN /\ request' = [op |-> "analyze_contacts", user_id |-> user_id,
                              conference_id |-> conference_id]
               /\ response' = ExceptException("Analysis error: ",
                                HTTPException(NotFoundStatus, "User profile not found"))
               /\ UNCHANGED tasks
          ELSE /\ tasks' = [tasks EXCEPT ![t] =
                              [pc |-> "find", user_id |-> user_id,
                               conference_id |-> conference_id]]
               /\ UNCHANGED <<request, response>>
     /\ UNCHANGED <<users, contacts, meetings, suggests, catalogue>>

\* await contacts_cursor.to_list(length=None), then the scoring loop
analyze_find(t) ==
  LET found == Find(contacts, get_conference_filter(tasks[t].conference_id))
  IN /\ tasks[t].pc = "find"
     /\ IF found = <<>>
          THEN /\ request' = [op |-> "analyze_contacts",
                              user_id |-> tasks[t].user_id,
                              conference_id |-> tasks[t].conference_id]
               /\ response' = Ok([analyzed_contacts |-> <<>>,
                                  message |-> "No contacts to analyze"])
               /\ tasks' = [tasks EXCEPT ![t] = Idle]
          ELSE /\ tasks' = [tasks EXCEPT ![t] =
                              [pc |-> "replace_one",
                               user_id |-> tasks[t].user_id,
                               conference_id |-> tasks[t].conference_id,
                               analyzed_contacts |-> ScoreAll(found),
                               written |-> 0]]
               /\ UNCHANGED <<request, response>>
     /\ UNCHANGED <<users, contacts, meetings, suggests, catalogue>>

\* one turn of "for contact in analyzed_contacts: await replace_one(...)"
analyze_replace_one(t) ==
  /\ tasks[t].pc = "replace_one"
  /\ tasks[t].written < Len(tasks[t].analyzed_contacts)
  /\ contacts' = replace_contact(contacts,
                   tasks[t].analyzed_contacts[tasks[t].written + 1])
  /\ tasks' = [tasks EXCEPT ![t].written = @ + 1]
  /\ UNCHANGED <<users, meetings, suggests, catalogue, request, response>>

\* after the last replace_one: sort and return
analyze_return(t) ==
  LET sorted == SortByScore(tasks[t].analyzed_contacts)
  IN /\ tasks[t].pc = "replace_one"
     /\ tasks[t].written = Len(tasks[t].analyzed_contacts)
     /\ request' = [op |-> "analyze_contacts", user_id |-> tasks[t].user_id,
                    conference_id |-> tasks[t].conference_id]
     /\ response' =
          Ok([analyzed_contacts |-> Limit(sorted, TopReturned),
              total_analyzed |-> Len(sorted),
              high_priority |-> CountPriority(sorted, "high"),
              medium_priority |-> CountPriority(sorted, "medium"),
              low_priority |-> CountPriority(sorted, "low")])
     /\ tasks' = [tasks EXCEPT ![t] = Idle]
     /\ UNCHANGED <<users, contacts, meetings, suggests, catalogue>>

\* documents the contact store takes in SpecInterleaved
MaxInterleavedContacts == 5

\* the first rows of contacts.csv: three of HIMSS 2025, one of BIO 2025 and
\* one of the BIO International Convention
InterleavedFiles ==
  {[f EXCEPT !.rows = SubSeq(f.rows, 1, MaxInterleavedContacts)] : f \in RepeatFiles}

InterleavedConferences == {"all", "himss-2025", "bio-2025"}

NextInterleaved ==
  \/ \E profile \in Profiles : save_user_profile(profile)
  \/ \E file \in InterleavedFiles, user_id \in {TestUser} :
        /\ Len(contacts) + Len(file.rows) <= MaxInterleavedContacts
        /\ upload_contacts(file, user_id)
  \/ \E t \in Tasks, user_id \in UserIds, conference_id \in InterleavedConferences :
        analyze_find_one(t, user_id, conference_id)
  \/ \E t \in Tasks : analyze_find(t)
  \/ \E t \in Tasks : analyze_replace_one(t)
  \/ \E t \in Tasks : analyze_return(t)

\* two analyze requests in flight at once
SpecInterleaved == Init /\ [][NextInterleaved]_vars

(***************************************************************************)
(* get_dashboard_stats as a coroutine: it yields at each of its three      *)
(* count_documents calls, and uploads and analyze steps run in between.    *)
(***************************************************************************)
\* the dict the handler returns
StatsBody(total_contacts, high_priority, meetings_suggested) ==
  [total_contacts |-> total_contacts,
   high_priority_contacts |-> high_priority,
   meeting_suggestions |-> meetings_suggested,
   roi_projection |->
     [number |-> meetings_suggested * 15,
      text |-> "% increase in qualified leads"]]

\* total_contacts = await db.contacts.count_documents({})
stats_count_total(t, user_id) ==
  /\ tasks[t] = Idle
  /\ tasks' = [tasks EXCEPT ![t] =
                 [pc |-> "count_high", user_id |-> user_id,
                  total_contacts |-> CountDocuments(contacts, NoFilter)]]
  /\ UNCHANGED <<users, contacts, meetings, suggests, catalogue,
                 request, response>>

\* high_priority = await db.contacts.count_documents({"priority": "high"})
stats_count_high(t) ==
  /\ tasks[t].pc = "count_high"
  /\ tasks' = [tasks EXCEPT ![t] =
                 [pc |-> "count_meetings", user_id |-> tasks[t].user_id,
                  total_contacts |-> tasks[t].total_contacts,
                  high_priority |->
                    CountDocuments(contacts, [priority |-> "high"])]]
  /\ UNCHANGED <<users, contacts, meetings, suggests, catalogue,
                 request, response>>

\* meetings_suggested = await db.meetings.count_documents({}), and return
stats_count_meetings(t) ==
  /\ tasks[t].pc = "count_meetings"
  /\ request' = [op |-> "get_dashboard_stats", user_id |-> tasks[t].user_id]
  /\ response' = Ok(StatsBody(tasks[t].total_contacts, tasks[t].high_priority,
                              CountDocuments(meetings, NoFilter)))
  /\ tasks' = [tasks EXCEPT ![t] = Idle]
  /\ UNCHANGED <<users, contacts, meetings, suggests, catalogue>>

\* documents the contact store takes in SpecStats
MaxStatsContacts == 10

\* the task that serves stats, and the task that serves analyze
StatsTask == 1
AnalyzeTask == 2

NextStats ==
  \/ \E profile \in Profiles : save_user_profile(profile)
  \/ \E file \in InterleavedFiles, user_id \in {TestUser} :
        /\ Len(contacts) + Len(file.rows) <= MaxStatsContacts
        /\ upload_contacts(file, user_id)
  \/ \E user_id \in {TestUser}, conference_id \in {"all", "himss-2025"} :
        analyze_find_one(AnalyzeTask, user_id, conference_id)
  \/ analyze_find(AnalyzeTask)
  \/ analyze_replace_one(AnalyzeTask)
  \/ analyze_return(AnalyzeTask)
  \/ \E user_id \in {TestUser} : stats_count_total(StatsTask, user_id)
  \/ stats_count_high(StatsTask)
  \/ stats_count_meetings(StatsTask)

\* a stats request in flight while contacts are uploaded and analyzed
SpecStats == Init /\ [][NextStats]_vars

(***************************************************************************)
(* Properties.                                                             *)
(***************************************************************************)
\* the last request was an analyze that scored at least one contact
AnalyzeSucceeded ==
  /\ request.op = "analyze_contacts"
  /\ response.status = OkStatus
  /\ "total_analyzed" \in DOMAIN response.body

\* the contact belongs to the conference the identifier names: any contact
\* for "all" and for an identifier outside the mapping, else the contacts
\* whose conference is the mapped canonical name
InConference(contact, conference_id) ==
  \/ conference_id = "all"
  \/ conference_id \notin DOMAIN conference_name_map
  \/ contact.conference = conference_name_map[conference_id]

\* the stored contacts the last request's conference filter selects
Selected == SelectSeq(contacts, LAMBDA c : InConference(c, request.conference_id))

\* 1 when the text contains one of the keywords (case-insensitive), else 0
Indicator(text, keywords) == IF AnyKeyword(text, keywords) THEN 1 ELSE 0

Min(a, b) == IF a < b THEN a ELSE b

\* C1: every stored contact has a score between 0 and 100 inclusive, in
\* every reachable state of the contact store.
C1_ScoreInRange ==
  \A i \in 1..Len(contacts) : contacts[i].score >= 0 /\ contacts[i].score <= 100

\* a contact whose bonuses sum past 100 is stored clamped, and suggest and
\* stats have run on that store
C1_Witness ==
  /\ \E i \in 1..Len(contacts) :
        contacts[i].score = 100 /\ RawScore(contacts[i]) > 100
  /\ meetings # <<>>
  /\ request.op = "get_dashboard_stats"

\* C2: the score analyze assigns is
\* min(60 + 25*[executive title] + 20*[healthcare organization]
\*        + 15*[industry] + 10*[trend title], 100);
\* a contact no rule applies to scores 60, a contact with exactly the
\* executive and industry rules scores 100.
C2_ScoreFormula ==
  AnalyzeSucceeded =>
    \A i \in 1..Len(Selected) :
      LET c == Selected[i]
          e == Indicator(c.title, ExecutiveKeywords)
          o == Indicator(c.company, OrganizationKeywords)
          n == Indicator(c.industry, IndustryKeywords)
          d == Indicator(c.title, TrendKeywords)
      IN /\ c.score = Min(60 + 25 * e + 20 * o + 15 * n + 10 * d, 100)
         /\ (e = 0 /\ o = 0 /\ n = 0 /\ d = 0) => c.score = 60
         /\ (e = 1 /\ o = 0 /\ n = 1 /\ d = 0) => c.score = 100

\* analyze has scored "Analyst / Acme Corp / Retail" 60 and
\* "VP Engineering / HealthTech Inc / Healthcare Technology" 100
C2_Witness ==
  /\ AnalyzeSucceeded
  /\ \E i \in 1..Len(Selected) :
        /\ Selected[i].title = "Analyst"
        /\ Selected[i].industry = "Retail"
        /\ Selected[i].score = 60
  /\ \E i \in 1..Len(Selected) :
        /\ Selected[i].title = "VP Engineering"
        /\ Selected[i].industry = "Healthcare Technology"
        /\ Selected[i].score = 100

\* C3: after analyze a contact's priority is "high" exactly when its title
\* contains an executive keyword, "medium" otherwise, never "low".
C3_PriorityByTitle ==
  AnalyzeSucceeded =>
    \A i \in 1..Len(Selected) :
      /\ Selected[i].priority =
           IF AnyKeyword(Selected[i].title, ExecutiveKeywords)
             THEN "high" ELSE "medium"
      /\ Selected[i].priority # "low"
      /\ response.body.low_priority = 0

\* analyze has left a contact of score 100 at "medium" and a contact of
\* score 85 at "high"; "Chief Medical Officer" is "high"
C3_Witness ==
  /\ AnalyzeSucceeded
  /\ \E i \in 1..Len(Selected) :
        Selected[i].score = 100 /\ Selected[i].priority = "medium"
  /\ \E i \in 1..Len(Selected) :
        Selected[i].score = 85 /\ Selected[i].priority = "high"
  /\ \E i \in 1..Len(Selected) :
        Selected[i].title = "Chief Medical Officer" /\ Selected[i].priority = "high"

\* the last request was an analyze for a user_id without a stored profile
AnalyzeWithoutProfile ==
  /\ request.op = "analyze_contacts"
  /\ \A i \in 1..Len(users) : users[i].id # request.user_id

\* C4: analyze for a user_id with no stored profile answers NotFound (404),
\* distinguishable from a generic operation error.
C4_NotFoundReported ==
  AnalyzeWithoutProfile => response.status = 404

\* C5: analyze for a user_id with no stored profile leaves the contact
\* store exactly as it was.
C5_NoWriteWithoutProfile ==
  [][ (/\ request'.op = "analyze_contacts"
       /\ \A i \in 1..Len(users) : users[i].id # request'.user_id)
      => contacts' = contacts ]_vars

\* analyze was refused while the store held contacts it would have scored
C5_Witness ==
  /\ AnalyzeWithoutProfile
  /\ response.status # OkStatus
  /\ \E i \in 1..Len(Selected) : Selected[i].score = 0

\* C6: after a successful analyze every stored contact matching the
\* conference filter holds its newly computed score and priority, also the
\* contacts beyond the 20 returned.
C6_AllPersisted ==
  AnalyzeSucceeded =>
    /\ \A i \in 1..Len(Selected) :
         /\ Selected[i].score = Clamp(RawScore(Selected[i]))
         /\ Selected[i].priority = PriorityOf(Selected[i])
    /\ \A k \in 1..Len(response.body.analyzed_contacts) :
         \E i \in 1..Len(Selected) :
           Selected[i] = response.body.analyzed_contacts[k]
    /\ response.body.total_analyzed = Len(Selected)

\* more than 20 contacts were analyzed and a stored, scored contact is not
\* among those returned
C6_Witness ==
  /\ AnalyzeSucceeded
  /\ response.body.total_analyzed > 20
  /\ \E i \in 1..Len(Selected) :
        /\ Selected[i].score >= 60
        /\ \A k \in 1..Len(response.body.analyzed_contacts) :
              response.body.analyzed_contacts[k].id # Selected[i].id

\* position i of the analyzed contacts comes before position j in the order
\* "score descending, equal scores in the order read"
Before(docs, i, j) ==
  \/ docs[i].score > docs[j].score
  \/ docs[i].score = docs[j].score /\ i < j

\* the place of position i in that order
Rank(docs, i) == 1 + Cardinality({j \in 1..Len(docs) : Before(docs, j, i)})

\* C7: the list analyze returns is the first 20 entries (all, when fewer)
\* of the analyzed contacts sorted by score descending, contacts of equal
\* score in the order they were read from the store.
C7_TopTwentyStable ==
  AnalyzeSucceeded =>
    LET returned == response.body.analyzed_contacts
    IN /\ Len(returned) = Min(20, Len(Selected))
       /\ \A i \in 1..Len(Selected) :
            Rank(Selected, i) <= 20 => returned[Rank(Selected, i)] = Selected[i]

\* more than 20 contacts were analyzed, the sort moved a later contact in
\* front of an earlier one, and two contacts of equal score were returned
C7_Witness ==
  /\ AnalyzeSucceeded
  /\ Len(Selected) > 20
  /\ \E i, j \in 1..Len(Selected) : i < j /\ Selected[i].score < Selected[j].score
  /\ \E k \in 1..(Len(response.body.analyzed_contacts) - 1) :
        response.body.analyzed_contacts[k].score =
          response.body.analyzed_contacts[k + 1].score

\* C8: for every contact it scores, analyze replaces the stored score,
\* priority and notes and leaves identifier, name, email, company, title,
\* industry and conference unchanged.
C8_ReplacesScorePriorityNotes ==
  [][ (/\ request'.op = "analyze_contacts"
       /\ response'.status = OkStatus)
      => /\ Len(contacts') = Len(contacts)
         /\ \A i \in 1..Len(contacts) :
              InConference(contacts[i], request'.conference_id) =>
                /\ contacts'[i].score = Clamp(RawScore(contacts[i]))
                /\ contacts'[i].priority = PriorityOf(contacts[i])
                /\ contacts'[i].notes = AiNotes(contacts[i])
                /\ \A k \in {"id", "name", "email", "company", "title",
                             "industry", "conference"} :
                       contacts'[i][k] = contacts[i][k] ]_vars

\* C9: "all" and every identifier outside the mapping match every stored
\* contact; a recognized identifier matches exactly the contacts whose
\* conference equals the mapped canonical name.  analyze scores that many.
C9_FilterResolution ==
  /\ \A conference_id \in ConferenceIds \cup DOMAIN conference_name_map
                          \cup {"HIMSS 2025", ""} :
       LET found == Find(contacts, get_conference_filter(conference_id))
       IN IF conference_id = "all" \/ conference_id \notin DOMAIN conference_name_map
            THEN found = contacts
            ELSE found = SelectSeq(contacts,
                           LAMBDA c : c.conference = conference_name_map[conference_id])
  /\ AnalyzeSucceeded => response.body.total_analyzed = Len(Selected)

\* analyze ran with a recognized identifier on a store that holds contacts
\* of that conference and of others, one of them "BIO 2025"
C9_Witness ==
  /\ AnalyzeSucceeded
  /\ request.conference_id = "bio-2025"
  /\ Len(Selected) > 0
  /\ Len(Selected) < Len(contacts)
  /\ \E i \in 1..Len(contacts) : contacts[i].conference = "BIO 2025"

\* the last request was a suggest
Suggested == request.op = "suggest_meetings"

\* the contacts the recommendations of the last response are about
SuggestedIds ==
  [k \in 1..Len(response.body.meeting_suggestions) |->
     response.body.meeting_suggestions[k].contact_id]

\* C10: suggest selects contacts of the conference with priority "high",
\* at most 10; only when there is none, contacts of the conference, at most
\* 5; it returns exactly one recommendation per selected contact.
C10_Selection ==
  Suggested =>
    LET high == SelectSeq(Selected, LAMBDA c : c.priority = "high")
        pool == IF high # <<>> THEN high ELSE Selected
        cap == IF high # <<>> THEN 10 ELSE 5
    IN /\ Len(SuggestedIds) = Min(cap, Len(pool))
       /\ \A k \in 1..Len(SuggestedIds) :
            \E i \in 1..Len(pool) : pool[i].id = SuggestedIds[k]
       /\ \A k, l \in 1..Len(SuggestedIds) :
            k # l => SuggestedIds[k] # SuggestedIds[l]
       /\ response.body.total_suggestions = Len(SuggestedIds)

\* suggest found more than 10 high-priority contacts and returned 10
C10_Witness ==
  /\ Suggested
  /\ Len(SelectSeq(Selected, LAMBDA c : c.priority = "high")) > 10
  /\ Len(SuggestedIds) = 10

\* the high-priority contacts among those of the last request's conference
SelectedHigh == SelectSeq(Selected, LAMBDA c : c.priority = "high")

\* the identifiers of the first n documents
FirstIds(docs, n) == [k \in 1..Min(n, Len(docs)) |-> docs[k].id]

\* C11 as stated: for a conference with fewer than 10 high-priority contacts
\* and at least one contact of any priority, suggest takes the fallback path
\* (the first contacts of the conference whatever their priority) and
\* returns at most 5 recommendations.
C11_FallbackBelowTen ==
  (Suggested /\ Len(SelectedHigh) < 10 /\ Len(Selected) >= 1) =>
    /\ SuggestedIds = FirstIds(Selected, 5)
    /\ Len(SuggestedIds) <= 5

\* C11 amended: suggest takes the fallback path, returning between 1 and 5
\* recommendations for the first contacts of the conference, when the
\* conference has no high-priority contact and at least one contact; with 1
\* to 9 high-priority contacts it returns exactly those, up to 9.
C11_FallbackOnlyWithoutHigh ==
  Suggested =>
    /\ (Len(SelectedHigh) = 0 /\ Len(Selected) >= 1) =>
          /\ SuggestedIds = FirstIds(Selected, 5)
          /\ Len(SuggestedIds) >= 1
          /\ Len(SuggestedIds) <= 5
    /\ (Len(SelectedHigh) >= 1 /\ Len(SelectedHigh) < 10) =>
          SuggestedIds = FirstIds(SelectedHigh, 9)

\* the fallback served a conference with more than 5 contacts, none of them
\* high, with recommendations for the first 5
C11_Witness ==
  /\ Suggested
  /\ Len(SelectedHigh) = 0
  /\ Len(Selected) > 5
  /\ Len(SuggestedIds) = 5

\* the recommendations of the last response
Recommendations == response.body.meeting_suggestions

\* the last request was a suggest for a user_id without a stored profile
SuggestWithoutProfile ==
  /\ Suggested
  /\ \A i \in 1..Len(users) : users[i].id # request.user_id

\* the number of recommendations the store yields for the last request's
\* conference, whoever asks
ExpectedSuggestions ==
  IF SelectedHigh # <<>> THEN Min(10, Len(SelectedHigh))
  ELSE Min(5, Len(Selected))

\* C12: suggest for a user_id with no stored profile does not fail; it
\* returns as many recommendations as a request with a profile, and each
\* message names the company "Your Company" and the goal "networking".
C12_ProfileOptional ==
  /\ Suggested =>
       /\ response.status = OkStatus
       /\ Len(Recommendations) = ExpectedSuggestions
  /\ SuggestWithoutProfile =>
       \A k \in 1..Len(Recommendations) :
         /\ Recommendations[k].personalized_message.company = "Your Company"
         /\ Recommendations[k].personalized_message.topic = "networking"

\* a profile is stored under another identifier, and suggest for a user_id
\* without one returned recommendations
C12_Witness ==
  /\ SuggestWithoutProfile
  /\ users # <<>>
  /\ Len(Recommendations) >= 5

\* C13: the recommendation at position i (from 0) of one suggest response
\* carries the slot label at index i mod 5 of the ordered list of 5 labels;
\* the first five labels differ from one another and the 6th recommendation
\* repeats the label of the 1st.
C13_SlotRoundRobin ==
  Suggested =>
    LET labels == <<"Day 1, 10:00 AM", "Day 1, 2:00 PM", "Day 2, 11:00 AM",
                    "Day 2, 3:00 PM", "Day 3, 9:00 AM">>
        n == Len(Recommendations)
    IN /\ \A i \in 0..(n - 1) :
            Recommendations[i + 1].suggested_time = labels[(i % 5) + 1]
       /\ \A i, j \in 0..(Min(n, 5) - 1) :
            i # j => Recommendations[i + 1].suggested_time
                       # Recommendations[j + 1].suggested_time
       /\ n >= 6 => Recommendations[6].suggested_time
                      = Recommendations[1].suggested_time

\* suggest returned 10 recommendations, the slots going round twice
C13_Witness ==
  /\ Suggested
  /\ Len(Recommendations) = 10
  /\ Recommendations[10].suggested_time = "Day 3, 9:00 AM"

\* C15: stats changes neither the contacts nor the meetings collection; it
\* returns total_contacts = number of stored contacts,
\* high_priority_contacts = number of stored contacts of priority "high",
\* meeting_suggestions = number of stored recommendations, and an
\* roi_projection whose number is 15 * meeting_suggestions (45 for 3).
C15_StatsReadOnly ==
  [][ request'.op = "get_dashboard_stats"
      => /\ contacts' = contacts
         /\ meetings' = meetings
         /\ response'.status = OkStatus
         /\ response'.body.total_contacts = Len(contacts)
         /\ response'.body.high_priority_contacts =
              Cardinality({i \in 1..Len(contacts) : contacts[i].priority = "high"})
         /\ response'.body.meeting_suggestions = Len(meetings)
         /\ response'.body.roi_projection.number = 15 * Len(meetings)
         /\ Len(meetings) = 3 => response'.body.roi_projection.number = 45 ]_vars

\* stats answered 45 over 3 stored recommendations and a store that holds
\* high-priority and other contacts
C15_Witness ==
  /\ request.op = "get_dashboard_stats"
  /\ Len(meetings) = 3
  /\ response.body.roi_projection.number = 45
  /\ response.body.high_priority_contacts > 0
  /\ response.body.high_priority_contacts < response.body.total_contacts

\* the stored contacts analyze has scored
Analyzed == SelectSeq(contacts, LAMBDA c : "ai_notes" \in DOMAIN c)

\* C19 as stated: the priority is derived from the score; any two analyzed
\* contacts with the same score have the same priority.
C19_PriorityFromScore ==
  \A i, j \in 1..Len(Analyzed) :
    Analyzed[i].score = Analyzed[j].score
      => Analyzed[i].priority = Analyzed[j].priority

\* C19 amended: the priority is derived from the title, not from the score;
\* any two analyzed contacts whose titles agree on containing an executive
\* keyword have the same priority, every "high" contact scores at least 85,
\* and two analyzed contacts with the same score below 85 have the same
\* priority.  ExecutiveTitles holds the titles of the uploaded files that
\* contain an executive keyword.
C19_PriorityFromTitle ==
  LET docs == Analyzed
      executive == [i \in 1..Len(docs) |-> docs[i].title \in ExecutiveTitles]
  IN \A i, j \in 1..Len(docs) :
       /\ executive[i] = executive[j] => docs[i].priority = docs[j].priority
       /\ docs[i].priority = "high" => docs[i].score >= 85
       /\ (docs[i].score = docs[j].score /\ docs[i].score < 85)
           => docs[i].priority = docs[j].priority

\* two analyzed contacts score 100, one "high" by its title and one
\* "medium", and two others share a score below 85
C19_Witness ==
  /\ \E i, j \in 1..Len(Analyzed) :
        /\ Analyzed[i].score = 100 /\ Analyzed[j].score = 100
        /\ Analyzed[i].priority = "high" /\ Analyzed[j].priority = "medium"
  /\ \E i, j \in 1..Len(Analyzed) :
        /\ i # j
        /\ Analyzed[i].score = Analyzed[j].score
        /\ Analyzed[i].score < 85

\* the last request was a profile lookup
ProfileRequested == request.op = "get_user_profile"

\* the stored profiles with the identifier of the last request
StoredProfiles == SelectSeq(users, LAMBDA p : p.id = request.user_id)

\* C16: GET /user/profile/{id} returns the stored profile when a profile
\* with that identifier was saved, and answers NotFound (404) when no
\* profile has that identifier.
C16_ProfileOrNotFound ==
  ProfileRequested =>
    IF StoredProfiles # <<>>
      THEN response = Ok(StoredProfiles[1])
      ELSE response.status = 404

\* the last request asked the listing for an industry and the LLM call
\* raised
ListingWithLlmFailure ==
  /\ request.op = "get_conferences"
  /\ Truthy(request.industry)
  /\ request.llm = "raises"

\* C17: when the LLM call fails, GET /conferences with an industry still
\* succeeds and returns the conference list with the rule-based relevance
\* scores.
C17_ListingSurvivesLlmFailure ==
  ListingWithLlmFailure =>
    /\ response.status = 200
    /\ "conferences" \in DOMAIN response.body
    /\ Len(response.body.conferences) = Len(HEALTHCARE_CONFERENCES)
    /\ \A i \in 1..Len(response.body.conferences) :
         "relevance_score" \in DOMAIN response.body.conferences[i]

\* C20: no request changes the module-level conference list; GET
\* /conferences without an industry returns its entries as they were at
\* start, none with a relevance_score, whatever requests came before.
C20_CatalogueUnchanged ==
  /\ catalogue = HEALTHCARE_CONFERENCES
  /\ (request.op = "get_conferences" /\ ~Truthy(request.industry)) =>
       /\ response.body.conferences = HEALTHCARE_CONFERENCES
       /\ \A i \in 1..Len(response.body.conferences) :
            "relevance_score" \notin DOMAIN response.body.conferences[i]

\* the contact and the slot label of each recommendation, in order
ContactsAndSlots(recs) ==
  [k \in 1..Len(recs) |-> <<recs[k].contact_id, recs[k].suggested_time>>]

\* the identifiers of the documents
IdsOf(docs) == {docs[k].id : k \in 1..Len(docs)}

\* C14: the meetings collection is append-only.  Every step keeps the
\* stored records as a prefix; a suggest appends exactly the
\* recommendations it returns, each with an identifier that no stored
\* record and no other returned recommendation has; and a suggest that
\* follows a suggest for the same conference over the same contacts leaves
\* both sets of records, with the same contacts and slot labels and
\* disjoint identifiers.
C14_AppendOnly ==
  [][ /\ Len(meetings') >= Len(meetings)
      /\ SubSeq(meetings', 1, Len(meetings)) = meetings
      /\ request'.op = "suggest_meetings" =>
           LET recs == response'.body.meeting_suggestions
           IN /\ meetings' = meetings \o recs
              /\ IdsOf(recs) \cap IdsOf(meetings) = {}
              /\ Cardinality(IdsOf(recs)) = Len(recs)
      /\ (/\ request.op = "suggest_meetings"
          /\ request'.op = "suggest_meetings"
          /\ request'.conference_id = request.conference_id
          /\ contacts' = contacts) =>
           LET first == response.body.meeting_suggestions
               second == response'.body.meeting_suggestions
               n == Len(meetings')
           IN /\ ContactsAndSlots(second) = ContactsAndSlots(first)
              /\ IdsOf(first) \cap IdsOf(second) = {}
              /\ SubSeq(meetings', n - Len(second) + 1, n) = second
              /\ SubSeq(meetings', n - Len(second) - Len(first) + 1,
                        n - Len(second)) = first ]_vars

\* two suggest requests have each stored 6 recommendations for the same 6
\* contacts, 12 records with 12 identifiers
C14_Witness ==
  /\ Suggested
  /\ Len(meetings) = 12
  /\ Len(Recommendations) = 6
  /\ ContactsAndSlots(SubSeq(meetings, 1, 6)) = ContactsAndSlots(SubSeq(meetings, 7, 12))
  /\ Cardinality(IdsOf(meetings)) = 12

\* the score and the priority one analyze run gives a contact, from the
\* texts of the uploaded files that contain a keyword of each rule
SingleRunScore(c) ==
  Min(60 + (IF c.title \in ExecutiveTitles THEN 25 ELSE 0)
         + (IF c.company \in OrganizationCompanies THEN 20 ELSE 0)
         + (IF c.industry \in RelevantIndustries THEN 15 ELSE 0)
         + (IF c.title \in TrendTitles THEN 10 ELSE 0), 100)

SingleRunPriority(c) == IF c.title \in ExecutiveTitles THEN "high" ELSE "medium"

\* the record is as uploaded, or as one analyze run writes it
WholeRecord(c) ==
  IF "ai_notes" \in DOMAIN c
    THEN c.score = SingleRunScore(c) /\ c.priority = SingleRunPriority(c)
    ELSE c.score = 0 /\ c.priority = "medium"

\* C18: with two analyze requests interleaved at their store reads and
\* writes, every stored record is at every moment a whole one (as uploaded
\* or as an analyze run writes it), a record once analyzed is never changed
\* by a later write, and when a request returns every contact of its set
\* holds the score and priority a single run gives it; so once both have
\* returned, every contact of either set does.
C18_InterleavedAnalyze ==
  [][ /\ \A i \in 1..Len(contacts') : WholeRecord(contacts'[i])
      /\ \A i \in 1..Len(contacts) :
           "ai_notes" \in DOMAIN contacts[i] => contacts'[i] = contacts[i]
      /\ \A t \in Tasks :
           (tasks[t].pc = "replace_one" /\ tasks'[t] = Idle) =>
             \A i \in 1..Len(contacts') :
               InConference(contacts'[i], tasks[t].conference_id) =>
                 /\ "ai_notes" \in DOMAIN contacts'[i]
                 /\ contacts'[i].score = SingleRunScore(contacts'[i])
                 /\ contacts'[i].priority = SingleRunPriority(contacts'[i]) ]_vars

\* one analyze has returned while the other, over an overlapping set, is
\* between two of its writes, about to write a record the first one wrote
C18_Witness ==
  /\ AnalyzeSucceeded
  /\ \E t \in Tasks :
        /\ tasks[t].pc = "replace_one"
        /\ tasks[t].written > 0
        /\ tasks[t].written < Len(tasks[t].analyzed_contacts)
        /\ tasks[t].conference_id # request.conference_id
        /\ \E i \in 1..Len(contacts) :
              /\ contacts[i].id = tasks[t].analyzed_contacts[tasks[t].written + 1].id
              /\ InConference(contacts[i], request.conference_id)

\* C21: analyze changes only the records of the contacts that match the
\* conference filter.  The store holds the same contact identifiers before
\* and after (none created by the upsert, none removed, no identifier held
\* twice), every contact that does not match the filter is unchanged, and
\* the meetings collection is unchanged.
C21_AnalyzeFrame ==
  [][ request'.op = "analyze_contacts"
      => /\ IdsOf(contacts') = IdsOf(contacts)
         /\ Len(contacts') = Len(contacts)
         /\ Cardinality(IdsOf(contacts')) = Len(contacts')
         /\ \A i \in 1..Len(contacts) :
              ~InConference(contacts[i], request'.conference_id)
                => contacts'[i] = contacts[i]
         /\ meetings' = meetings ]_vars

\* analyze for "bio-2025" has scored the contacts of that conference while
\* the store holds contacts of other conferences, never scored, and stored
\* recommendations
C21_Witness ==
  /\ AnalyzeSucceeded
  /\ request.conference_id = "bio-2025"
  /\ \E i \in 1..Len(contacts) :
        /\ ~InConference(contacts[i], "bio-2025")
        /\ contacts[i].score = 0
        /\ "ai_notes" \notin DOMAIN contacts[i]
  /\ \E i \in 1..Len(contacts) :
        /\ InConference(contacts[i], "bio-2025")
        /\ "ai_notes" \in DOMAIN contacts[i]
  /\ meetings # <<>>

\* the last response is a stats response
StatsAnswered == request.op = "get_dashboard_stats" /\ response.status = OkStatus

\* C22: every stats response has high_priority_contacts <= total_contacts,
\* also when uploads and analyze writes fall between the count reads.
C22_HighWithinTotal ==
  StatsAnswered =>
    response.body.high_priority_contacts <= response.body.total_contacts

====
